---------------------------- MODULE Spec2Model ----------------------------
(***************************************************************************)
(* A model of the rjson reader (src/src/lib.rs): a cursor `pos` over an    *)
(* immutable character buffer `json`, and the recursive-descent parser     *)
(* run as a machine with an explicit call stack.                           *)
(*                                                                         *)
(* Characters are one-element strings ("a", "[", "\"").  A character that  *)
(* is not ASCII is written by its code point ("U+00E9"); it is ONE element *)
(* of the buffer (chars().nth indexes by character) but several bytes      *)
(* (String::len counts bytes).                                             *)
(*                                                                         *)
(* A Number's f64 is modelled by the decimal it denotes, as the pair       *)
(* [m, k] standing for m / 10^k in lowest terms of 10, so that two texts   *)
(* of the same value ("1.50", "1.5", "01.5") give equal Numbers, as f64    *)
(* equality does for short decimals.                                       *)
(***************************************************************************)
EXTENDS Integers, Sequences, FiniteSets, TLC

VARIABLES
    json,     \* Json.json: the input, a sequence of characters
    pos,      \* Json.pos: the cursor, a 0-based character index
    stack,    \* the call stack: one frame per active method call
    ret,      \* <<>> or <<r>>: the Result a call has just returned
    status,   \* "run", "done" (the entry call returned) or "panic" (unwrap on Err)
    steps,    \* the steps the run has taken so far
    tc        \* the test case being run: its family, the entry method, what the text was built from

vars == <<json, pos, stack, ret, status, steps, tc>>

-----------------------------------------------------------------------------
(* Characters *)

None == "<none>"

Quote == "\""

Digits == {"0", "1", "2", "3", "4", "5", "6", "7", "8", "9"}

UpperSeq == <<"A","B","C","D","E","F","G","H","I","J","K","L","M",
              "N","O","P","Q","R","S","T","U","V","W","X","Y","Z">>

LowerSeq == <<"a","b","c","d","e","f","g","h","i","j","k","l","m",
              "n","o","p","q","r","s","t","u","v","w","x","y","z">>

\* char::to_lowercase on the characters of the model's alphabets
LowerChar(c) ==
    IF \E i \in 1..26 : UpperSeq[i] = c
    THEN LowerSeq[CHOOSE i \in 1..26 : UpperSeq[i] = c]
    ELSE c

\* str::to_lowercase
to_lowercase(s) == [i \in 1..Len(s) |-> LowerChar(s[i])]

\* char::len_utf8: the bytes a character takes in a String
Utf8Len(c) ==
    CASE c = "U+00E9" -> 2
      [] c = "U+20AC" -> 3
      [] OTHER -> 1

RECURSIVE ByteLen(_)
\* String::len: the length in BYTES of the text
ByteLen(s) == IF s = <<>> THEN 0 ELSE Utf8Len(Head(s)) + ByteLen(Tail(s))

\* char::is_digit(10)
is_digit(c) == c \in Digits

DigitVal(c) ==
    CASE c = "0" -> 0 [] c = "1" -> 1 [] c = "2" -> 2 [] c = "3" -> 3
      [] c = "4" -> 4 [] c = "5" -> 5 [] c = "6" -> 6 [] c = "7" -> 7
      [] c = "8" -> 8 [] c = "9" -> 9

-----------------------------------------------------------------------------
(* JsonValue, JsonError, Result *)

Bool(b) == [tag |-> "Bool", b |-> b]

Number(v) == [tag |-> "Number", n |-> v]

Null == [tag |-> "Null"]

Array(items) == [tag |-> "Array", items |-> items]

String(s) == [tag |-> "String", s |-> s]

Object(pairs) == [tag |-> "Object", pairs |-> pairs]

InvalidFormat(what, at, found) ==
    [kind |-> "InvalidFormat", what |-> what, at |-> at, found |-> found]

EndOfStr == [kind |-> "EndOfStr"]

Ok(v) == [ok |-> TRUE, val |-> v]

Err(e) == [ok |-> FALSE, err |-> e]

-----------------------------------------------------------------------------
(* The f64 a decimal text denotes *)

RECURSIVE Pow10(_)
Pow10(k) == IF k = 0 THEN 1 ELSE 10 * Pow10(k - 1)

RECURSIVE NatOf(_)
\* the natural number a run of digits denotes ("" is 0)
NatOf(ds) ==
    IF ds = <<>> THEN 0
    ELSE 10 * NatOf(SubSeq(ds, 1, Len(ds) - 1)) + DigitVal(ds[Len(ds)])

RECURSIVE Dec(_, _)
\* m / 10^k with the trailing zeros of the fraction dropped
Dec(m, k) ==
    IF k > 0 /\ m % 10 = 0 THEN Dec(m \div 10, k - 1) ELSE [m |-> m, k |-> k]

IndexOfDot(s) ==
    IF \E i \in 1..Len(s) : s[i] = "."
    THEN CHOOSE i \in 1..Len(s) : s[i] = "." /\ \A j \in 1..(i - 1) : s[j] # "."
    ELSE Len(s) + 1

\* <str as FromStr for f64>::from_str on a text of digits, '.' and '-' (all that
\* parse_number's scan lets through): an optional sign, then digits with at most
\* one '.', at least one digit in all.  ok = FALSE is ParseFloatError.
F64Parse(s) ==
    LET neg  == s # <<>> /\ s[1] = "-"
        body == IF neg THEN Tail(s) ELSE s
        dot  == IndexOfDot(body)
        ip   == SubSeq(body, 1, dot - 1)
        fp   == SubSeq(body, dot + 1, Len(body))
        good == /\ \A i \in 1..Len(ip) : is_digit(ip[i])
                /\ \A i \in 1..Len(fp) : is_digit(fp[i])
                /\ Len(ip) + Len(fp) >= 1
        mag  == NatOf(ip) * Pow10(Len(fp)) + NatOf(fp)
    IN  IF good
        THEN [ok |-> TRUE, v |-> Dec(IF neg THEN 0 - mag ELSE mag, Len(fp))]
        ELSE [ok |-> FALSE, v |-> Dec(0, 0)]

-----------------------------------------------------------------------------
(* Cursor primitives: pure in (j, p), the buffer and the cursor *)

\* Json::current_char / next_char: json.chars().nth(i)
CharAt(j, i) == IF i >= 0 /\ i < Len(j) THEN j[i + 1] ELSE None

current_char(j, p) == CharAt(j, p)

\* Json::look_ahead: up to `length` characters starting one past the cursor
look_ahead(j, p, length) ==
    SubSeq(j, p + 2, IF p + 1 + length < Len(j) THEN p + 1 + length ELSE Len(j))

RECURSIVE ScanNumberNoDot(_, _)
\* ScanNumber with the '.' left out of the take_while
ScanNumberNoDot(j, p) ==
    LET c == CharAt(j, p)
    IN  IF c # None /\ (is_digit(c) \/ c = "-")
        THEN <<c>> \o ScanNumberNoDot(j, p + 1)
        ELSE <<>>

RECURSIVE ScanNumber(_, _)
\* chars().skip(p).take_while(is_digit || '.' || '-')
ScanNumber(j, p) ==
    LET c == CharAt(j, p)
    IN  IF c # None /\ (is_digit(c) \/ c = "." \/ c = "-")
        THEN <<c>> \o ScanNumber(j, p + 1)
        ELSE <<>>

RECURSIVE ScanToQuote(_, _)
\* chars().skip(p).take_while(|c| *c != '"')
ScanToQuote(j, p) ==
    LET c == CharAt(j, p)
    IN  IF c # None /\ c # Quote THEN <<c>> \o ScanToQuote(j, p + 1) ELSE <<>>

-----------------------------------------------------------------------------
(* The leaf parsers: each gives the Result and the cursor it leaves *)

Leaf(r, p) == [r |-> r, pos |-> p]

\* parse_bool without to_lowercase: only the lower-case tails match
parse_bool_exact(j, p) ==
    LET c == current_char(j, p)
    IN  CASE c \in {"t", "T"} ->
               IF look_ahead(j, p, 3) = <<"r", "u", "e">>
               THEN Leaf(Ok(Bool(TRUE)), p + 4)
               ELSE Leaf(Err(InvalidFormat("boolean", p, look_ahead(j, p, 3))), p)
          [] c \in {"f", "F"} ->
               IF look_ahead(j, p, 4) = <<"a", "l", "s", "e">>
               THEN Leaf(Ok(Bool(FALSE)), p + 5)
               ELSE Leaf(Err(InvalidFormat("boolean", p, look_ahead(j, p, 4))), p)
          [] c = None -> Leaf(Err(EndOfStr), p)
          [] OTHER -> Leaf(Err(InvalidFormat("boolean", p, <<c>>)), p)

parse_bool(j, p) ==
    LET c == current_char(j, p)
    IN  CASE c \in {"t", "T"} ->
               IF to_lowercase(look_ahead(j, p, 3)) = <<"r", "u", "e">>
               THEN Leaf(Ok(Bool(TRUE)), p + 4)
               ELSE Leaf(Err(InvalidFormat("boolean", p,
                                to_lowercase(look_ahead(j, p, 3)))), p)
          [] c \in {"f", "F"} ->
               IF to_lowercase(look_ahead(j, p, 4)) = <<"a", "l", "s", "e">>
               THEN Leaf(Ok(Bool(FALSE)), p + 5)
               ELSE Leaf(Err(InvalidFormat("boolean", p,
                                to_lowercase(look_ahead(j, p, 4)))), p)
          [] c = None -> Leaf(Err(EndOfStr), p)
          [] OTHER -> Leaf(Err(InvalidFormat("boolean", p, <<c>>)), p)

parse_number(j, p) ==
    LET num == ScanNumber(j, p)
        f   == F64Parse(num)
    IN  IF f.ok
        THEN Leaf(Ok(Number(f.v)), p + ByteLen(num))
        ELSE Leaf(Err(InvalidFormat("number", p,
                         IF num = <<>> THEN <<"cannot parse float from empty string">>
                                       ELSE <<"invalid float literal">>)), p)

\* parse_null with the lookahead lower-cased, as parse_bool does
parse_null_any_case(j, p) ==
    IF to_lowercase(look_ahead(j, p, 3)) = <<"u", "l", "l">>
    THEN Leaf(Ok(Null), p + 4)
    ELSE Leaf(Err(InvalidFormat("null", p, look_ahead(j, p, 3))), p)

parse_null(j, p) ==
    IF look_ahead(j, p, 3) = <<"u", "l", "l">>
    THEN Leaf(Ok(Null), p + 4)
    ELSE Leaf(Err(InvalidFormat("null", p, look_ahead(j, p, 3))), p)

parse_string(j, p) ==
    LET str == ScanToQuote(j, p + 1)
    IN  Leaf(Ok(String(str)), p + 1 + ByteLen(str))

\* parse_key: the key and the cursor it leaves
parse_key(j, p) ==
    LET str == ScanToQuote(j, p)
    IN  [key |-> str, pos |-> p + ByteLen(str)]

-----------------------------------------------------------------------------
(* The call stack *)

Frame(fn, at) == [fn |-> fn, pc |-> "body", start |-> at, acc |-> <<>>, key |-> <<>>]

Top == stack[Len(stack)]

Running(fn, pc) == status = "run" /\ stack # <<>> /\ Top.fn = fn /\ Top.pc = pc

SetTop(f) == [stack EXCEPT ![Len(stack)] = f]

\* the running call returns r: its frame is popped; the entry call's return ends the run
Return(r) ==
    /\ stack' = SubSeq(stack, 1, Len(stack) - 1)
    /\ ret' = <<r>>
    /\ status' = IF Len(stack) = 1 THEN "done" ELSE "run"

\* the running call calls fn and waits at `pc` for its Result
Call(fn, at, pc) ==
    /\ stack' = Append(SetTop([Top EXCEPT !.pc = pc]), Frame(fn, at))
    /\ ret' = <<>>
    /\ status' = "run"

-----------------------------------------------------------------------------
(* parse: the skip-loop and the dispatch *)

Separators == {" ", "\n", ":", ",", "\t"}

\* the method the match of parse() routes character c to, or None
Route(c) ==
    CASE c = "{" -> "parse_object"
      [] c \in {"T", "F", "t", "f"} -> "parse_bool"
      [] c = "-" \/ c \in Digits -> "parse_number"
      [] c \in {"N", "n"} -> "parse_null"
      [] c = "[" -> "parse_array"
      [] c = Quote -> "parse_string"
      [] OTHER -> None

\* Json::invalid_format
invalid_format(p, c) == InvalidFormat("format", p, <<c>>)

\* the skip-loop without its consume_char
SkipNoConsume ==
    /\ Running("parse", "body")
    /\ current_char(json, pos) \in Separators
    /\ steps' = steps + 1
    /\ UNCHANGED <<json, pos, stack, ret, status, tc>>

\* one iteration of the skip-loop
Skip ==
    /\ Running("parse", "body")
    /\ current_char(json, pos) \in Separators
    /\ pos' = pos + 1
    /\ steps' = steps + 1
    /\ UNCHANGED <<json, stack, ret, status, tc>>

\* the match, on a character that starts a value
Dispatch ==
    /\ Running("parse", "body")
    /\ current_char(json, pos) \notin Separators
    /\ Route(current_char(json, pos)) # None
    /\ Call(Route(current_char(json, pos)), pos, "ret")
    /\ steps' = steps + 1
    /\ UNCHANGED <<json, pos, tc>>

\* the match, on any other character or at the end of the input
DispatchErr ==
    /\ Running("parse", "body")
    /\ current_char(json, pos) \notin Separators
    /\ Route(current_char(json, pos)) = None
    /\ Return(Err(IF current_char(json, pos) = None
                  THEN EndOfStr
                  ELSE invalid_format(pos, current_char(json, pos))))
    /\ steps' = steps + 1
    /\ UNCHANGED <<json, pos, tc>>

\* parse() returns what the routed method returned
ParseReturn ==
    /\ Running("parse", "ret")
    /\ ret # <<>>
    /\ Return(ret[1])
    /\ steps' = steps + 1
    /\ UNCHANGED <<json, pos, tc>>

-----------------------------------------------------------------------------
(* The leaf parsers as steps *)

RunLeaf(fn, l) ==
    /\ Running(fn, "body")
    /\ pos' = l.pos
    /\ Return(l.r)
    /\ steps' = steps + 1
    /\ UNCHANGED <<json, tc>>

ParseBool == RunLeaf("parse_bool", parse_bool(json, pos))

ParseNumber == RunLeaf("parse_number", parse_number(json, pos))

ParseNull == RunLeaf("parse_null", parse_null(json, pos))

ParseString == RunLeaf("parse_string", parse_string(json, pos))

-----------------------------------------------------------------------------
(* parse_array *)

\* one iteration of the loop, up to its continue, its break or its call of parse()
ArrayLoop ==
    /\ Running("parse_array", "body")
    /\ LET c == current_char(json, pos + 1)
       IN  CASE c \in {",", " "} ->
                  /\ pos' = pos + 2
                  /\ UNCHANGED <<stack, ret, status>>
             [] c = "]" ->
                  /\ pos' = pos + 2
                  /\ Return(Ok(Array(Top.acc)))
             [] c = None ->
                  /\ pos' = pos + 1
                  /\ Return(Ok(Array(Top.acc)))
             [] OTHER ->
                  /\ pos' = pos + 1
                  /\ Call("parse", pos + 1, "elem")
    /\ steps' = steps + 1
    /\ UNCHANGED <<json, tc>>

\* ArrayPush with the value put in front: array.insert(0, value)
ArrayPushFront ==
    /\ Running("parse_array", "elem")
    /\ ret # <<>> /\ ret[1].ok
    /\ stack' = SetTop([Top EXCEPT !.pc = "body", !.acc = <<ret[1].val>> \o @])
    /\ ret' = <<>>
    /\ steps' = steps + 1
    /\ UNCHANGED <<json, pos, status, tc>>

\* self.parse().unwrap() on Ok, then array.push(value)
ArrayPush ==
    /\ Running("parse_array", "elem")
    /\ ret # <<>> /\ ret[1].ok
    /\ stack' = SetTop([Top EXCEPT !.pc = "body", !.acc = Append(@, ret[1].val)])
    /\ ret' = <<>>
    /\ steps' = steps + 1
    /\ UNCHANGED <<json, pos, status, tc>>

-----------------------------------------------------------------------------
(* parse_object *)

\* one iteration of the loop, up to its continue, its break or its call of parse()
ObjectLoop ==
    /\ Running("parse_object", "body")
    /\ LET c == current_char(json, pos + 1)
           k == parse_key(json, pos + 1)
       IN  CASE c = "}" ->
                  /\ pos' = pos + 2
                  /\ Return(Ok(Object(Top.acc)))
             [] c \in {",", " ", ":", "\n", "\t"} ->
                  /\ pos' = pos + 2
                  /\ UNCHANGED <<stack, ret, status>>
             [] c = None ->
                  /\ pos' = pos + 1
                  /\ Return(Ok(Object(Top.acc)))
             [] OTHER ->
                  /\ pos' = k.pos + 1
                  /\ stack' = Append(SetTop([Top EXCEPT !.pc = "value", !.key = k.key]),
                                     Frame("parse", k.pos + 1))
                  /\ ret' = <<>>
                  /\ status' = "run"
    /\ steps' = steps + 1
    /\ UNCHANGED <<json, tc>>

\* self.parse().unwrap() on Ok, then obj.push((key, value))
ObjectPush ==
    /\ Running("parse_object", "value")
    /\ ret # <<>> /\ ret[1].ok
    /\ stack' = SetTop([Top EXCEPT !.pc = "body", !.acc = Append(@, <<Top.key, ret[1].val>>)])
    /\ ret' = <<>>
    /\ steps' = steps + 1
    /\ UNCHANGED <<json, pos, status, tc>>

\* self.parse().unwrap() on Err, in parse_array or in parse_object: the thread panics
UnwrapPanic ==
    /\ status = "run" /\ stack # <<>>
    /\ \/ Top.fn = "parse_array" /\ Top.pc = "elem"
       \/ Top.fn = "parse_object" /\ Top.pc = "value"
    /\ ret # <<>> /\ ~ret[1].ok
    /\ status' = "panic"
    /\ steps' = steps + 1
    /\ UNCHANGED <<json, pos, stack, ret, tc>>

-----------------------------------------------------------------------------

(* The inputs: the texts the parser is run on, family by family *)

MaxElems == 3

MaxOuter == 2

MaxInner == 2

MaxPairs == 2

MaxIntDigits == 2

MaxFracDigits == 2

MaxRunLen == 4

MaxNullTail == 4

MaxStrLen == 3

MaxFuzzLen == 4

MaxStart == 1

SeqsOf(S, lo, hi) == UNION {[1..n -> S] : n \in lo..hi}

RECURSIVE Join(_, _)
\* the texts of ts, one after the other, with sep between two neighbours
Join(ts, sep) ==
    IF ts = <<>> THEN <<>>
    ELSE IF Len(ts) = 1 THEN ts[1]
    ELSE ts[1] \o sep \o Join(Tail(ts), sep)

\* a test case starts: Json::new(text), the cursor moved to start, the method `entry`
\* called; family and p say what the text was built from
Start(family, entry, text, start, p) ==
    /\ tc = [family |-> family, entry |-> entry, p |-> p]
    /\ json = text
    /\ pos = start
    /\ stack = <<Frame(entry, start)>>
    /\ ret = <<>>
    /\ status = "run"
    /\ steps = 0

\* number, boolean and null literals, each with the value it stands for
ScalarLits ==
    << [text |-> <<"1">>,                     val |-> Number([m |-> 1, k |-> 0])],
       [text |-> <<"2", "3">>,                val |-> Number([m |-> 23, k |-> 0])],
       [text |-> <<"-", "4">>,                val |-> Number([m |-> 0 - 4, k |-> 0])],
       [text |-> <<"1", ".", "5", "0">>,      val |-> Number([m |-> 15, k |-> 1])],
       [text |-> <<"t", "r", "u", "e">>,      val |-> Bool(TRUE)],
       [text |-> <<"F", "A", "L", "S", "E">>, val |-> Bool(FALSE)],
       [text |-> <<"n", "u", "l", "l">>,      val |-> Null] >>

\* the literals that are numbers or booleans
NumBoolLits == 1..6

Lit(i) == [k |-> "lit", i |-> i, items |-> <<>>, keys |-> <<>>]

Arr(items) == [k |-> "arr", i |-> 0, items |-> items, keys |-> <<>>]

Obj(keys, items) == [k |-> "obj", i |-> 0, items |-> items, keys |-> keys]

RECURSIVE TextOf(_, _, _)
\* the text of a value tree: sep between elements or entries, pad after each '{'
TextOf(t, sep, pad) ==
    CASE t.k = "lit" -> ScalarLits[t.i].text
      [] t.k = "arr" ->
           <<"[">> \o Join([n \in 1..Len(t.items) |-> TextOf(t.items[n], sep, pad)], sep)
                   \o <<"]">>
      [] t.k = "obj" ->
           <<"{">> \o pad
                   \o Join([n \in 1..Len(t.items) |->
                              <<Quote>> \o t.keys[n] \o <<Quote, ":">>
                                        \o TextOf(t.items[n], sep, pad)], sep)
                   \o <<"}">>

RECURSIVE ValueOf(_)
\* the JsonValue a value tree stands for
ValueOf(t) ==
    CASE t.k = "lit" -> ScalarLits[t.i].val
      [] t.k = "arr" -> Array([n \in 1..Len(t.items) |-> ValueOf(t.items[n])])
      [] t.k = "obj" ->
           Object([n \in 1..Len(t.items) |-> <<t.keys[n], ValueOf(t.items[n])>>])

UpperChar(c) ==
    IF \E i \in 1..26 : LowerSeq[i] = c
    THEN UpperSeq[CHOOSE i \in 1..26 : LowerSeq[i] = c]
    ELSE c

\* every spelling of a lower-case word in a mix of upper and lower case letters
Spellings(word) ==
    {[i \in 1..Len(word) |-> IF up[i] THEN UpperChar(word[i]) ELSE word[i]] :
        up \in [1..Len(word) -> BOOLEAN]}

BoolWords == {<<"t", "r", "u", "e">>, <<"f", "a", "l", "s", "e">>}

BoolJunk == {"x", "1", ",", "t"}

Leads == {<<>>, <<" ">>, <<",", "\n">>}

Trailers == {<<>>, <<",", "1">>}

\* tests::parse_bool, widened: every spelling of true and false, after separators and
\* before more text
GoodBoolCases ==
    \E w \in BoolWords :
        \E sp \in Spellings(w), lead \in Leads, trail \in Trailers :
            Start("bool", "parse", lead \o sp \o trail, 0,
                  [word |-> w, valid |-> TRUE, lead |-> Len(lead)])

\* a spelling cut short, and a spelling with one letter after the first replaced
BadBoolCases ==
    \E w \in BoolWords :
        \E sp \in Spellings(w) :
            \/ \E n \in 1..(Len(w) - 1) :
                  Start("bool", "parse", SubSeq(sp, 1, n), 0,
                        [word |-> w, valid |-> FALSE, lead |-> 0])
            \/ \E i \in 2..Len(w), c \in BoolJunk :
                  Start("bool", "parse", [sp EXCEPT ![i] = c], 0,
                        [word |-> w, valid |-> FALSE, lead |-> 0])

DigitPool == {0, 2, 9}

DigitChars == <<"0", "1", "2", "3", "4", "5", "6", "7", "8", "9">>

\* the text -?ip(.fp)? of a sign and two runs of digit values
NumText(neg, ip, fp) ==
    (IF neg THEN <<"-">> ELSE <<>>)
    \o [i \in 1..Len(ip) |-> DigitChars[ip[i] + 1]]
    \o (IF fp = <<>> THEN <<>> ELSE <<".">> \o [i \in 1..Len(fp) |-> DigitChars[fp[i] + 1]])

NumEnds == {<<>>, <<",">>, <<"]">>, <<"x", "1">>}

\* tests::parse_num..., widened: every literal -?[0-9]+(\.[0-9]+)? over the digit
\* pool, at the end of the input or before a character that ends the scan
NumLitCases ==
    \E neg \in BOOLEAN,
       ip \in SeqsOf(DigitPool, 1, MaxIntDigits),
       fp \in SeqsOf(DigitPool, 0, MaxFracDigits),
       end \in NumEnds,
       entry \in {"parse_number", "parse"} :
        Start("number", entry, NumText(neg, ip, fp) \o end, 0,
              [neg |-> neg, ip |-> ip, fp |-> fp, len |-> Len(NumText(neg, ip, fp))])

\* every run of '1', '.' and '-' that parse_number's scan can take
NumRunCases ==
    \E run \in SeqsOf({"1", ".", "-"}, 1, MaxRunLen), end \in {<<>>, <<",">>} :
        Start("run", "parse_number", run \o end, 0, [run |-> run])

NullAlphabet == {"u", "l", "U", "k"}

\* tests::parse_null and tests::parse_knull, widened: n or N and any tail
NullCases ==
    \E first \in {"n", "N"},
       tail \in SeqsOf(NullAlphabet, 0, MaxNullTail),
       entry \in {"parse_null", "parse"} :
        Start("null", entry, <<first>> \o tail, 0, [tail |-> tail])

StrAlphabet == {"a", "p", "U+00E9"}

\* tests::parse_string, widened: a quoted text, ASCII or not, with or without more
\* text after it
StringCases ==
    \E content \in SeqsOf(StrAlphabet, 0, MaxStrLen),
       trail \in Trailers,
       entry \in {"parse_string", "parse"} :
        Start("string", entry, <<Quote>> \o content \o <<Quote>> \o trail, 0,
              [content |-> content])

ArraySeps == {<<",">>, <<",", " ">>}

\* tests::parse_array and tests::parse_array_bool, widened: an array of numbers and
\* booleans, separated by commas or by a comma and a space, at the end of a text, the
\* cursor on its '['
ArrayCases ==
    \E e \in SeqsOf(NumBoolLits, 1, MaxElems),
       sep \in ArraySeps,
       lead \in Leads,
       entry \in {"parse_array", "parse"} :
        Start("array", entry,
              lead \o TextOf(Arr([n \in 1..Len(e) |-> Lit(e[n])]), sep, <<>>), Len(lead),
              [expect |-> ValueOf(Arr([n \in 1..Len(e) |-> Lit(e[n])])), sep |-> sep])

NestedItems ==
    {Lit(1), Lit(2)} \cup {Arr(e) : e \in SeqsOf({Lit(1), Lit(2)}, 1, MaxInner)}

\* arrays whose elements are numbers or arrays of numbers, separated by commas
NestedCases ==
    \E items \in SeqsOf(NestedItems, 1, MaxOuter) :
        Start("nested", "parse", TextOf(Arr(items), <<",">>, <<>>), 0,
              [expect |-> ValueOf(Arr(items)), sep |-> <<",">>])

ObjKeys == {<<"a", "g", "e">>, <<"s", "u", "b">>}

ObjItems ==
    {Lit(1), Lit(5), Lit(7),
     Obj(<<(<<"c", "a", "r">>)>>, <<Lit(5)>>),
     Obj(<<(<<"c", "a", "r">>), (<<"i", "s", "F", "a", "s", "t">>)>>, <<Lit(5), Lit(6)>>)}

\* tests::parse_object_num and the text of main, in small: objects of one or more
\* entries, each value a scalar or an object, with nothing or a space after '{'
ObjectCases ==
    \E n \in 1..MaxPairs :
        \E keys \in [1..n -> ObjKeys], items \in [1..n -> ObjItems], pad \in {<<>>, <<" ">>} :
            Start("object", "parse", TextOf(Obj(keys, items), <<",">>, pad), 0,
                  [expect |-> ValueOf(Obj(keys, items)), pad |-> pad])

FuzzAlphabet == {"[", "]", "{", "}", Quote, ",", ":", "1", "x"}

\* any text over the brackets, the quote, two separators, a digit and a character
\* that starts no value, read from any of its first cursors
FuzzCases ==
    \E text \in SeqsOf(FuzzAlphabet, 0, MaxFuzzLen) :
        \E start \in 0..(IF Len(text) < MaxStart THEN Len(text) ELSE MaxStart) :
            Start("fuzz", "parse", text, start, [len |-> Len(text)])

-----------------------------------------------------------------------------
(* The machine *)

\* the test cases of every family
Init ==
    \/ GoodBoolCases
    \/ BadBoolCases
    \/ NumLitCases
    \/ NumRunCases
    \/ NullCases
    \/ StringCases
    \/ ArrayCases
    \/ NestedCases
    \/ ObjectCases
    \/ FuzzCases

Next ==
    \/ Skip
    \/ Dispatch
    \/ DispatchErr
    \/ ParseReturn
    \/ ParseBool
    \/ ParseNumber
    \/ ParseNull
    \/ ParseString
    \/ ArrayLoop
    \/ ArrayPush
    \/ ObjectLoop
    \/ ObjectPush
    \/ UnwrapPanic

Spec == Init /\ [][Next]_vars

-----------------------------------------------------------------------------
(* The properties *)

Ended == status # "run"

Returned(r) == status = "done" /\ ret = <<r>>

FailedWith(kind) == status = "done" /\ ret # <<>> /\ ~ret[1].ok /\ ret[1].err.kind = kind

\* C1: an object text written without whitespace, {"k1":v1,"k2":v2,...}, parses at
\* the top level to the Object of exactly its pairs (k1,v1),(k2,v2),... in source
\* order, a nested object value being the Object of its own pairs.
C1_ObjectPairsInOrder ==
    (tc.family = "object" /\ tc.p.pad = <<>> /\ Ended) => Returned(Ok(tc.p.expect))

\* C2: errors are returned, never thrown: when the parse of a value nested in an array
\* or an object fails, the run does not abort; parse() returns a Result.
C2_ErrorsAreReturned == status # "panic"

\* C3: parse_array, with the cursor on '[', on an array of n >= 1 numbers and booleans
\* separated by single commas and closed by ']', returns the Array of exactly those
\* n values in source order.
C3_ArrayOfScalars ==
    (tc.family = "array" /\ tc.p.sep = <<",">> /\ Ended) => Returned(Ok(tc.p.expect))

C3_Witness ==
    /\ tc.family = "array" /\ tc.p.sep = <<",">> /\ tc.entry = "parse_array"
    /\ status = "done" /\ ret # <<>> /\ ret[1].ok
    /\ Len(ret[1].val.items) >= 3
    /\ ret[1].val.items[1] # ret[1].val.items[3]

\* C4: every spelling of true or false in any mix of upper and lower case parses to
\* Bool(true), Bool(false), and leaves the cursor exactly past the literal (4 or 5
\* positions on); a t, T, f or F not followed by the rest of the word fails with
\* InvalidFormat.
C4_BoolAnyCase ==
    (tc.family = "bool" /\ Ended) =>
        IF tc.p.valid
        THEN /\ Returned(Ok(Bool(tc.p.word = <<"t", "r", "u", "e">>)))
             /\ pos = tc.p.lead + (IF tc.p.word = <<"t", "r", "u", "e">> THEN 4 ELSE 5)
        ELSE FailedWith("InvalidFormat")

C4_Witness ==
    /\ tc.family = "bool" /\ tc.p.valid /\ status = "done"
    /\ json = <<"F", "a", "L", "s", "E", ",", "1">>
    /\ ret = <<Ok(Bool(FALSE))>> /\ pos = 5

RECURSIVE IntOf(_)
\* the number a run of digit values denotes
IntOf(ds) == IF ds = <<>> THEN 0 ELSE IntOf(SubSeq(ds, 1, Len(ds) - 1)) * 10 + ds[Len(ds)]

\* a run of digits, '.' and '-' that is no number: two dots, a '-' after the first
\* character, or no digit
BadRun(run) ==
    \/ Cardinality({i \in 1..Len(run) : run[i] = "."}) >= 2
    \/ \E i \in 2..Len(run) : run[i] = "-"
    \/ \A i \in 1..Len(run) : run[i] \notin Digits

\* C5: for a literal -?[0-9]+(\.[0-9]+)? at the cursor, followed by the end of the
\* input or by a character that is no digit, '.' or '-', parse_number gives the Number
\* of the literal's value and moves the cursor on by the literal's length (leading
\* zeros accepted); a scanned run that is no number fails with InvalidFormat.
C5_NumberValue ==
    /\ (tc.family = "number" /\ Ended) =>
          /\ status = "done" /\ ret # <<>> /\ ret[1].ok
          /\ ret[1].val.tag = "Number"
          /\ ret[1].val.n.m * Pow10(Len(tc.p.fp))
                = (IF tc.p.neg THEN 0 - 1 ELSE 1)
                  * (IntOf(tc.p.ip) * Pow10(Len(tc.p.fp)) + IntOf(tc.p.fp))
                  * Pow10(ret[1].val.n.k)
          /\ pos = tc.p.len
    /\ (tc.family = "run" /\ BadRun(tc.p.run) /\ Ended) => FailedWith("InvalidFormat")

C5_Witness ==
    /\ tc.family = "number" /\ status = "done"
    /\ json = <<"-", "0", "2", ".", "9", "0", "]">>
    /\ ret = <<Ok(Number([m |-> 0 - 29, k |-> 1]))>> /\ pos = 6

\* C6: parse_null gives Null and consumes 4 characters exactly when the three
\* characters after the cursor are literally u, l, l; for any other tail after n or N
\* (another letter, another case, fewer than three characters) it fails with
\* InvalidFormat.
C6_NullIsCaseSensitive ==
    (tc.family = "null" /\ Ended) =>
        IF Len(tc.p.tail) >= 3 /\ tc.p.tail[1] = "u" /\ tc.p.tail[2] = "l" /\ tc.p.tail[3] = "l"
        THEN Returned(Ok(Null)) /\ pos = 4
        ELSE FailedWith("InvalidFormat") /\ pos = 0

C6_Witness ==
    /\ tc.family = "null" /\ tc.entry = "parse_null"
    /\ json = <<"n", "U", "l", "l">>
    /\ FailedWith("InvalidFormat")

\* C7: parse_string, with the cursor on an opening quote, gives the String of exactly
\* the characters up to the next quote and leaves the cursor on that closing quote,
\* for every content, a character that is not ASCII counting as one position.
C7_StringStopsOnClosingQuote ==
    (tc.family = "string" /\ Ended) =>
        /\ Returned(Ok(String(tc.p.content)))
        /\ pos = 1 + Len(tc.p.content)
        /\ current_char(json, pos) = Quote

\* C8: parse_array ends at the ']' that closes the array it started on: the Array
\* holds exactly the values between its '[' and that ']', the cursor ends one past
\* that ']', and nothing after it (a sibling array, a later element of the enclosing
\* array) is consumed by it or appended to it.
C8_ArrayEndsAtItsBracket ==
    (tc.family = "nested" /\ Ended) =>
        /\ Returned(Ok(tc.p.expect))
        /\ pos = Len(json)

\* C9: in parse_array a ',' or a space moves the cursor on by one and the character
\* right after the separator is the next one classified, so an array whose elements
\* are separated by a comma and a space, [1, 2], yields every one of its elements.
C9_CommaSpaceSeparated ==
    (tc.family = "array" /\ tc.p.sep = <<",", " ">> /\ Ended) => Returned(Ok(tc.p.expect))

\* a step that is one iteration of the skip-loop, of parse_array's loop or of
\* parse_object's loop
LoopIteration == Skip \/ ArrayLoop \/ ObjectLoop

\* a run that has not ended has a step to take: the running call is in its body, or
\* holds the Result of the call it made
CanStep == stack # <<>> /\ (Top.pc = "body" \/ ret # <<>>)

\* C10: for every input and every starting cursor, parse() terminates, with Ok, with
\* Err or by aborting on a failed nested parse: the cursor never decreases, every
\* iteration of the three loops strictly advances it, every descent into parse() that
\* returns a value has advanced it, and the number of steps of the run (each one
\* counted, and a run that has not ended always having one to take) is bounded by the
\* length of the input: at most five steps for each character, and five more.
C10_Terminates ==
    /\ [][pos' >= pos]_vars
    /\ [][LoopIteration => pos' > pos]_vars
    /\ [][steps' = steps + 1]_vars
    /\ [](Running("parse", "ret") /\ ret # <<>> /\ ret[1].ok => pos > Top.start)
    /\ [](steps <= 5 * Len(json) + 5)
    /\ [](status = "run" => CanStep)

C10_Witness ==
    /\ tc.family = "fuzz" /\ status = "done" /\ ret # <<>> /\ ret[1].ok
    /\ Len(json) >= 4 /\ steps >= 4 /\ pos > Len(json)

=============================================================================
